---- MODULE Spec2Model ----
(***************************************************************************)
(* Model of IntelligenceCache (src/cache.py): a SQLite-backed lookup cache *)
(* with a general table (school_cache) and a verification table            *)
(* (verification_cache).                                                   *)
(*                                                                         *)
(* Time is counted in whole hours: timedelta(hours=h) is h and             *)
(* timedelta(days=d) is d * 24.  sqlite3 stores a datetime as its ISO text *)
(* and compares the texts; for timestamps of one format that order is the  *)
(* order of the instants, so timestamps are integers here.                 *)
(***************************************************************************)
EXTENDS Integers, Sequences, FiniteSets, Bags, TLC

VARIABLES
    ENABLE_CACHE,        \* config.ENABLE_CACHE, read at construction
    obj,                 \* "none" before __init__, "built" after it returned
    enabled,             \* self.enabled
    tables,              \* the tables _init_db has created
    now,                 \* the wall clock (datetime.now()), in hours
    school_cache,        \* rows of table school_cache
    verification_cache,  \* rows of table verification_cache
    ret,                 \* the last call, what it returned, whether it raised
    lastSet,             \* history: per cache key, the last set() since the last sweep
    getHits,             \* history: per cache key, gets that returned a hit (until a sweep)
    swept,               \* history: clear_expired has been called
    calls,               \* concurrent callers: the calls in flight, a bag of the
                         \* statement each is at with its locals and open transaction
    last_schools_count,  \* FinancialDataEngine._last_schools_count, or the
                         \* mark that the engine has no such attribute yet
    intelligence         \* what the last get_recruitment_intelligence returned

cacheVars == <<ENABLE_CACHE, obj, enabled, tables, now, school_cache,
               verification_cache, ret, lastSet, getHits, swept, calls>>

vars == <<ENABLE_CACHE, obj, enabled, tables, now, school_cache,
          verification_cache, ret, lastSet, getHits, swept, calls,
          last_schools_count, intelligence>>

----------------------------------------------------------------------------
(* Bounds of the model *)

\* the clock runs over the hours 0..MaxTime between the calls on the general
\* cache
MaxTime == 2
\* around the verification window, clock readings are taken within MaxOffset
\* hours after hour 0 and after the end of the window
MaxOffset == 2
\* hours the clock may advance between two readings inside one call
MaxDrift == 1
\* hit_count is capped here (guard of Get)
MaxHits == 2
\* largest explicit ttl_hours passed to set
MaxTtl == 1
\* threads or processes that call the cache concurrently
NumProcs == 2
\* largest number of schools a search result states for a trust
MaxSchools == 2

(* Program constants *)
VerificationDays == 7
HoursPerDay == 24
CACHE_TTL_HOURS == 24

WeekHours == VerificationDays * HoursPerDay

Hours == 0..MaxTime
WeekInstants == {t \in 0..(WeekHours + MaxOffset) : t % WeekHours <= MaxOffset}

----------------------------------------------------------------------------
(* Python and SQL values *)

PyNone == [py |-> "None"]
PyInt(n) == [py |-> "int", v |-> n]
PyList(s) == [py |-> "list", items |-> s]
PyDict(d) == [py |-> "dict", items |-> d]

SqlNull == [sql |-> "NULL"]
SqlText(s) == [sql |-> "text", v |-> s]

\* truthiness of an optional list or dict argument: None and empty are falsy
Truthy(x) ==
    /\ x # PyNone
    /\ (x.py = "list" => Len(x.items) > 0)

DGood == PyDict([rating |-> "Good"])
DPoor == PyDict([rating |-> "Inadequate"])
UrlsOne == PyList(<<"http://ofsted">>)
UrlsEmpty == PyList(<<>>)

\* a Python set, which json.dumps refuses with a TypeError
DSet == [py |-> "set"]

\* json.dumps encodes dicts, lists, strings, numbers and None
Serialisable(v) == v.py \in {"dict", "list", "int", "None"}

\* the values json.dumps is applied to in the model
JsonValues == {DGood, DPoor, UrlsOne, UrlsEmpty}

json_dumps(v) ==
    CASE v = DGood -> "{\"rating\": \"Good\"}"
      [] v = DPoor -> "{\"rating\": \"Inadequate\"}"
      [] v = UrlsOne -> "[\"http://ofsted\"]"
      [] v = UrlsEmpty -> "[]"

json_loads(s) == CHOOSE v \in JsonValues : json_dumps(v) = s

----------------------------------------------------------------------------
(* Cache keys *)

LowerChar(c) ==
    CASE c = "A" -> "a"
      [] c = "B" -> "b"
      [] c = "C" -> "c"
      [] OTHER -> c

\* str.lower(), strings being sequences of characters
Lower(s) == [i \in 1..Len(s) |-> LowerChar(s[i])]

\* hashlib.sha256(content).hexdigest(): a digest, taken to be collision free
Sha256(content) == [sha256 |-> content]

\* mutant: the school name is not lower-cased
GenerateKey_CaseSensitive(school_name, data_type) ==
    Sha256(school_name \o <<":">> \o data_type)

GenerateKey(school_name, data_type) ==
    Sha256(Lower(school_name) \o <<":">> \o data_type)

----------------------------------------------------------------------------
(* SQL statements *)

\* mutant: the expiry predicate of the SELECT is dropped
SelectLive_NoExpiry(cache, key, t) == {r \in cache : r.cache_key = key}

\* SELECT ... FROM school_cache WHERE cache_key = ? AND expires_at > ?
SelectLive(cache, key, t) ==
    {r \in cache : r.cache_key = key /\ r.expires_at > t}

\* mutant: the UPDATE is not guarded by the row
RowFound_Always(rows) == TRUE

\* `row = cursor.fetchone()`, `if row:`
RowFound(rows) == rows # {}

\* mutant: a hit also pushes the expiry of the row back
UpdateHit_Touch(cache, key) ==
    {IF r.cache_key = key
     THEN [r EXCEPT !.hit_count = @ + 1, !.expires_at = @ + 1]
     ELSE r : r \in cache}

\* UPDATE school_cache SET hit_count = hit_count + 1 WHERE cache_key = ?
UpdateHit(cache, key) ==
    {IF r.cache_key = key THEN [r EXCEPT !.hit_count = @ + 1] ELSE r : r \in cache}

\* mutant: the upsert does not read the prior hit count
CoalesceHitCount_Reset(cache, key) == 0

\* mutant: the upsert counts itself as a hit
CoalesceHitCount_Bump(cache, key) ==
    IF \E r \in cache : r.cache_key = key
    THEN (CHOOSE r \in cache : r.cache_key = key).hit_count + 1
    ELSE 0

\* COALESCE((SELECT hit_count FROM school_cache WHERE cache_key = ?), 0)
CoalesceHitCount(cache, key) ==
    IF \E r \in cache : r.cache_key = key
    THEN (CHOOSE r \in cache : r.cache_key = key).hit_count
    ELSE 0

\* mutant: cache_key is no primary key, the new row is added
ReplaceSchool_Append(cache, row) == cache \cup {row}

\* INSERT OR REPLACE INTO school_cache: the row with the same primary key
\* (cache_key) is deleted and the new row inserted
ReplaceSchool(cache, row) ==
    {r \in cache : r.cache_key # row.cache_key} \cup {row}

\* mutant: INSERT OR IGNORE, an existing row stands
ReplaceVerification_KeepExisting(cache, row) ==
    IF \E r \in cache : r.identifier = row.identifier THEN cache ELSE cache \cup {row}

\* INSERT OR REPLACE INTO verification_cache: the primary key is identifier
ReplaceVerification(cache, row) ==
    {r \in cache : r.identifier # row.identifier} \cup {row}

\* mutant: an entry verified exactly seven days ago still counts as fresh
SelectVerification_Inclusive(cache, identifier, identifier_type, week_ago) ==
    {r \in cache : /\ r.identifier = identifier
                   /\ r.identifier_type = identifier_type
                   /\ r.verified_at >= week_ago}

\* SELECT ... FROM verification_cache
\* WHERE identifier = ? AND identifier_type = ? AND verified_at > ?
SelectVerification(cache, identifier, identifier_type, week_ago) ==
    {r \in cache : /\ r.identifier = identifier
                   /\ r.identifier_type = identifier_type
                   /\ r.verified_at > week_ago}

\* mutant: the sweep also deletes the row that expires at this very instant
DeleteExpired_Inclusive(cache, t) == {r \in cache : ~(r.expires_at <= t)}

\* mutant: the sweep goes by the age of the row, not by its expiry
DeleteExpired_ByCreation(cache, t) == {r \in cache : ~(r.created_at < t)}

\* mutant: each sweep deletes a single expired row
DeleteExpired_OneRow(cache, t) ==
    LET expired == {r \in cache : r.expires_at < t}
    IN IF expired = {} THEN cache ELSE cache \ {CHOOSE r \in expired : TRUE}

\* DELETE FROM school_cache WHERE expires_at < ?
DeleteExpired(cache, t) == {r \in cache : ~(r.expires_at < t)}

\* DELETE FROM verification_cache WHERE verified_at < ?
DeleteOldVerification(cache, week_ago) == {r \in cache : ~(r.verified_at < week_ago)}

----------------------------------------------------------------------------
(* Connections, transactions and exceptions *)

\* mutant: the work of a body that raised is kept
WithConnection_NoRollback(before, working, exc) == working

\* `with sqlite3.connect(...) as conn:` commits the work of its body when the
\* body ends normally and rolls it back when the body raises
WithConnection(before, working, exc) == IF exc THEN before ELSE working

\* mutant: no except clause, the exception leaves the call
TryExcept_Propagates(exc) == exc

\* `try: ... except Exception as e: logger.error(...)`: whether an exception
\* raised in the body leaves the call
TryExcept(exc) == FALSE

\* _init_db runs outside any try block
NoTry(exc) == exc

\* mutant: the switch is not consulted
Disabled_Never(on) == FALSE

\* `if not self.enabled: return`
Disabled(on) == ~on

----------------------------------------------------------------------------
(* Return values *)

Absent == [cached |-> FALSE]

\* bool(row['is_valid']) of the stored integer
PyBool(i) == i # 0
\* a bool is stored as the integer 1 or 0
SqlBool(b) == IF b THEN 1 ELSE 0

GetHit(row) ==
    [cached |-> TRUE,
     data |-> json_loads(row.data.v),
     source_urls |-> IF row.source_urls # SqlNull
                     THEN json_loads(row.source_urls.v).items
                     ELSE <<>>,
     expires_at |-> row.expires_at]

\* what get(school_name, data_type) returns from the store at clock reading t
GetResult(cache, school_name, data_type, t) ==
    LET rows == SelectLive(cache, GenerateKey(school_name, data_type), t)
    IN IF rows = {} THEN Absent ELSE GetHit(CHOOSE r \in rows : TRUE)

VerificationHit(row) ==
    [cached |-> TRUE,
     is_valid |-> PyBool(row.is_valid),
     confidence_score |-> row.confidence_score,
     details |-> IF row.details # SqlNull THEN json_loads(row.details.v) ELSE PyDict(<<>>),
     verified_at |-> row.verified_at]

\* what get_verification(identifier, identifier_type) returns from the store
\* at clock reading t
GetVerificationResult(cache, identifier, identifier_type, t) ==
    LET rows == SelectVerification(cache, identifier, identifier_type, t - WeekHours)
    IN IF rows = {} THEN Absent ELSE VerificationHit(CHOOSE r \in rows : TRUE)

----------------------------------------------------------------------------
(* Inputs *)

SchoolNames == {<<"A">>, <<"a">>, <<"a", ":", "b">>}
DataTypes == {<<"c">>, <<"b", ":", "c">>}
Keys == {GenerateKey(l[1], l[2]) : l \in SchoolNames \X DataTypes}
\* two spellings of one school, and another school
OakUpper == <<<<"A">>, <<"c">>>>
OakLower == <<<<"a">>, <<"c">>>>
Elm == <<<<"a", ":", "b">>, <<"c">>>>
Lookups == {OakUpper, OakLower, Elm}
DataInputs == {DGood, DPoor}
UrlInputs == {PyNone, UrlsOne}
TtlInputs == {PyNone} \cup {PyInt(h) : h \in 0..MaxTtl}
Identifiers == {"07123", "x@y"}
IdentifierTypes == {"phone", "email"}
Scores == {92}

\* the arguments of set: both spellings of one school with both payloads,
\* one spelling with source URLs and every ttl, and another school
SetInputs ==
    ({OakUpper, OakLower} \X DataInputs \X {PyNone} \X {PyInt(1)})
    \cup ({OakLower} \X {DGood} \X {UrlsOne} \X TtlInputs)
    \cup ({Elm} \X {DGood} \X {PyNone} \X {PyInt(1)})

\* the arguments of the sets during which the clock advances
DriftSetInputs == {<<OakLower, DGood, PyNone, PyInt(1)>>}

\* the arguments of set_verification: every identifier, type and outcome
\* without details, and one call with details
VerificationInputs ==
    (Identifiers \X IdentifierTypes \X BOOLEAN \X Scores \X {PyNone})
    \cup {<<"07123", "phone", TRUE, 92, DGood>>}

\* every pairing of the names and kinds
AllLookups == SchoolNames \X DataTypes

\* the arguments of set when the sweep is examined: two schools
SweepSetInputs ==
    {<<OakLower, DGood, UrlsOne, PyInt(1)>>, <<Elm, DPoor, PyNone, PyNone>>}

\* the arguments of set_verification when the sweep is examined
SweepVerificationInputs ==
    {<<"07123", "phone", TRUE, 92, PyNone>>, <<"x@y", "email", FALSE, 92, PyNone>>}

\* the places where a call can meet a storage error; "none": no error
InitFaults == {"connect", "create_school", "create_verification"}
GetFaults == {"connect", "select", "update", "loads", "commit"}
SetFaults == {"connect", "insert", "commit"}
StatsFaults == {"connect", "count", "pragma"}
GetVerificationFaults == {"connect", "select", "loads"}
SetVerificationFaults == {"connect", "insert", "commit"}
ClearFaults == {"connect", "delete_school", "delete_verification", "commit", "vacuum"}
NoFault == {"none"}

NoSet == [known |-> FALSE]

Idle == [op |-> "idle", fault |-> "none", raised |-> FALSE]

----------------------------------------------------------------------------
(* get_stats *)

RECURSIVE SumHits(_)
\* SUM(hit_count)
SumHits(rows) ==
    IF rows = {} THEN 0
    ELSE LET r == CHOOSE x \in rows : TRUE
         IN r.hit_count + SumHits(rows \ {r})

\* MAX(hit_count), 0 standing for the NULL of an empty table (`max_hits or 0`)
MaxHitCount(rows) ==
    IF rows = {} THEN 0
    ELSE (CHOOSE r \in rows : \A x \in rows : x.hit_count <= r.hit_count).hit_count

\* round(): the integer nearest to num / den, a tie going to the even one
RoundHalfEven(num, den) ==
    LET q == num \div den
        twice == 2 * (num % den)
    IN IF twice < den THEN q
       ELSE IF twice > den THEN q + 1
       ELSE IF q % 2 = 0 THEN q ELSE q + 1

\* mutant: hits per entry
HitRate_PerEntry(total_hits, total_entries) ==
    RoundHalfEven(1000 * total_hits, IF total_entries # 0 THEN total_entries ELSE 1)

\* round((total_hits or 0) / (total_entries + (total_hits or 1)), 3), in
\* thousandths
HitRate(total_hits, total_entries) ==
    RoundHalfEven(1000 * total_hits,
                  total_entries + (IF total_hits # 0 THEN total_hits ELSE 1))

\* mutant: the hit statistics are taken over the unexpired rows only
Stats_LiveOnly(cache, vcache, t) ==
    LET total_entries == Cardinality(cache)
        live == {r \in cache : r.expires_at > t}
        total_hits == SumHits(live)
    IN [enabled |-> TRUE,
        total_entries |-> total_entries,
        active_entries |-> Cardinality(live),
        expired_entries |-> total_entries - Cardinality(live),
        total_hits |-> total_hits,
        average_hits |-> IF live = {} THEN 0
                         ELSE RoundHalfEven(100 * total_hits, Cardinality(live)),
        max_hits |-> MaxHitCount(live),
        verification_entries |-> Cardinality(vcache),
        hit_rate |-> HitRate(total_hits, total_entries)]

\* the dictionary get_stats builds at clock reading t; average_hits is in
\* hundredths and hit_rate in thousandths; cache_size_mb, the size of the
\* file, is left out
Stats(cache, vcache, t) ==
    LET total_entries == Cardinality(cache)
        active_entries == Cardinality({r \in cache : r.expires_at > t})
        total_hits == SumHits(cache)
    IN [enabled |-> TRUE,
        total_entries |-> total_entries,
        active_entries |-> active_entries,
        expired_entries |-> total_entries - active_entries,
        total_hits |-> total_hits,
        average_hits |-> IF total_entries = 0 THEN 0
                         ELSE RoundHalfEven(100 * total_hits, total_entries),
        max_hits |-> MaxHitCount(cache),
        verification_entries |-> Cardinality(vcache),
        hit_rate |-> HitRate(total_hits, total_entries)]

----------------------------------------------------------------------------
(* Initial state: nothing constructed, an empty store *)

Init ==
    /\ ENABLE_CACHE \in BOOLEAN
    /\ obj = "none"
    /\ enabled = FALSE
    /\ tables = {}
    /\ now = 0
    /\ school_cache = {}
    /\ verification_cache = {}
    /\ ret = Idle
    /\ lastSet = [k \in Keys |-> NoSet]
    /\ getHits = [k \in Keys |-> 0]
    /\ swept = FALSE
    /\ calls = EmptyBag
    /\ last_schools_count = [py |-> "no attribute"]
    /\ intelligence = PyNone

\* IntelligenceCache.__init__ and _init_db; each CREATE statement takes
\* effect when it is executed
Construct(fault) ==
    LET exc == fault # "none"
        created == IF Disabled(ENABLE_CACHE) \/ fault \in {"connect", "create_school"}
                   THEN {}
                   ELSE IF fault = "create_verification" THEN {"school_cache"}
                   ELSE {"school_cache", "verification_cache"}
    IN /\ obj = "none"
       /\ ~ENABLE_CACHE => fault = "none"
       /\ obj' = (IF NoTry(exc) THEN "failed" ELSE "built")
       /\ enabled' = ENABLE_CACHE
       /\ tables' = tables \cup created
       /\ ret' = [op |-> "init", fault |-> fault, raised |-> NoTry(exc)]
       /\ UNCHANGED <<last_schools_count, intelligence, ENABLE_CACHE, now, school_cache, verification_cache,
                      lastSet, getHits, swept, calls>>

\* time passes between calls; the clock is read at the instants T
Tick(T) ==
    /\ \E t \in T : t > now /\ now' = t
    /\ ret' = Idle
    /\ UNCHANGED <<last_schools_count, intelligence, ENABLE_CACHE, obj, enabled, tables, school_cache,
                   verification_cache, lastSet, getHits, swept, calls>>

\* IntelligenceCache.get; a storage error is raised at the place `fault`
Get(school_name, data_type, fault) ==
    LET cache_key == GenerateKey(school_name, data_type)
        rows == SelectLive(school_cache, cache_key, now)
        exc == fault # "none"
        selected == ~Disabled(enabled) /\ fault \notin {"connect", "select"}
        updated == selected /\ RowFound(rows) /\ fault # "update"
        working == IF updated THEN UpdateHit(school_cache, cache_key) ELSE school_cache
        returned == selected /\ RowFound(rows) /\ ~exc
    IN /\ obj = "built"
       /\ ~enabled => fault = "none"
       /\ fault \in {"update", "loads", "commit"} => rows # {}
       /\ \A r \in rows : r.hit_count < MaxHits
       /\ school_cache' = WithConnection(school_cache, working, exc)
       /\ ret' = [op |-> "get", school_name |-> school_name, data_type |-> data_type,
                  value |-> IF returned
                            THEN GetResult(school_cache, school_name, data_type, now)
                            ELSE Absent,
                  fault |-> fault, raised |-> TryExcept(exc)]
       /\ getHits' = (IF returned /\ ~swept
                      THEN [getHits EXCEPT ![cache_key] = @ + 1]
                      ELSE getHits)
       /\ UNCHANGED <<last_schools_count, intelligence, ENABLE_CACHE, obj, enabled, tables, now,
                      verification_cache, lastSet, swept, calls>>

\* `ttl_hours or CACHE_TTL_HOURS`: a ttl of 0 falls back to the default too
TtlOrDefault_Falsy(ttl_hours) ==
    IF ttl_hours = PyNone \/ ttl_hours.v = 0 THEN CACHE_TTL_HOURS ELSE ttl_hours.v

\* set, lines 122-123: `if ttl_hours is None: ttl_hours = CACHE_TTL_HOURS`
TtlOrDefault(ttl_hours) ==
    IF ttl_hours = PyNone THEN CACHE_TTL_HOURS ELSE ttl_hours.v

\* history: the row of the key that a set finds in place at clock reading t
PriorRow(cache, key, t) ==
    IF \A r \in cache : r.cache_key # key THEN "none"
    ELSE IF SelectLive(cache, key, t) # {} THEN "live"
    ELSE "expired"

\* IntelligenceCache.set; the clock is read for expires_at, then again, `drift`
\* hours later, for created_at
Set(school_name, data_type, data, source_urls, ttl_hours, drift, fault) ==
    LET ttl == TtlOrDefault(ttl_hours)
        cache_key == GenerateKey(school_name, data_type)
        expires_at == now + ttl
        exc == fault # "none" \/ ~Serialisable(data)
        row == [cache_key |-> cache_key,
                school_name |-> school_name,
                data_type |-> data_type,
                data |-> SqlText(json_dumps(data)),
                created_at |-> now + drift,
                expires_at |-> expires_at,
                source_urls |-> IF Truthy(source_urls)
                                THEN SqlText(json_dumps(source_urls))
                                ELSE SqlNull,
                hit_count |-> CoalesceHitCount(school_cache, cache_key)]
        inserted == /\ ~Disabled(enabled)
                    /\ fault \notin {"connect", "insert"}
                    /\ Serialisable(data)
        working == IF inserted THEN ReplaceSchool(school_cache, row) ELSE school_cache
    IN /\ obj = "built"
       /\ ~enabled => fault = "none" /\ drift = 0
       /\ fault = "connect" => drift = 0
       /\ ~Serialisable(data) => fault \in {"none", "connect"} /\ drift = 0
       /\ school_cache' = WithConnection(school_cache, working, exc)
       /\ now' = now + drift
       /\ ret' = [op |-> "set", school_name |-> school_name, data_type |-> data_type,
                  data |-> data, source_urls |-> source_urls, ttl |-> ttl,
                  ttl_hours |-> ttl_hours,
                  prior |-> IF inserted /\ ~exc THEN PriorRow(school_cache, cache_key, now)
                            ELSE "none",
                  fault |-> fault, raised |-> TryExcept(exc)]
       /\ lastSet' = (IF inserted /\ ~exc
                      THEN [lastSet EXCEPT ![cache_key] =
                              [known |-> TRUE, data |-> data, source_urls |-> source_urls,
                               ttl |-> ttl, ttl_hours |-> ttl_hours,
                               expires_at |-> expires_at]]
                      ELSE lastSet)
       /\ UNCHANGED <<last_schools_count, intelligence, ENABLE_CACHE, obj, enabled, tables, verification_cache,
                      getHits, swept, calls>>

\* IntelligenceCache.get_verification
GetVerification(identifier, identifier_type, fault) ==
    LET exc == fault # "none"
        rows == SelectVerification(verification_cache, identifier, identifier_type,
                                   now - WeekHours)
        returned == ~Disabled(enabled) /\ ~exc /\ rows # {}
    IN /\ obj = "built"
       /\ ~enabled => fault = "none"
       /\ fault = "loads" => rows # {}
       /\ ret' = [op |-> "get_verification", identifier |-> identifier,
                  identifier_type |-> identifier_type,
                  value |-> IF returned
                            THEN GetVerificationResult(verification_cache, identifier,
                                                       identifier_type, now)
                            ELSE Absent,
                  fault |-> fault, raised |-> TryExcept(exc)]
       /\ UNCHANGED <<last_schools_count, intelligence, ENABLE_CACHE, obj, enabled, tables, now, school_cache,
                      verification_cache, lastSet, getHits, swept, calls>>

\* history: the entry of the pair that a set_verification finds in place
PriorVerification(cache, identifier, identifier_type, is_valid) ==
    LET rows == {r \in cache : /\ r.identifier = identifier
                               /\ r.identifier_type = identifier_type}
    IN IF rows = {} THEN "none"
       ELSE IF \E r \in rows : /\ r.verified_at <= now - WeekHours
                                /\ PyBool(r.is_valid) # is_valid
       THEN "stale, other outcome"
       ELSE "other"

\* IntelligenceCache.set_verification
SetVerification(identifier, identifier_type, is_valid, confidence_score, details, fault) ==
    LET exc == fault # "none"
        row == [identifier |-> identifier,
                identifier_type |-> identifier_type,
                is_valid |-> SqlBool(is_valid),
                confidence_score |-> confidence_score,
                verified_at |-> now,
                details |-> IF Truthy(details) THEN SqlText(json_dumps(details))
                            ELSE SqlNull]
        inserted == ~Disabled(enabled) /\ fault \notin {"connect", "insert"}
        working == IF inserted THEN ReplaceVerification(verification_cache, row)
                   ELSE verification_cache
    IN /\ obj = "built"
       /\ ~enabled => fault = "none"
       /\ verification_cache' = WithConnection(verification_cache, working, exc)
       /\ ret' = [op |-> "set_verification", identifier |-> identifier,
                  identifier_type |-> identifier_type, is_valid |-> is_valid,
                  confidence_score |-> confidence_score,
                  prior |-> PriorVerification(IF inserted /\ ~exc THEN verification_cache
                                              ELSE {},
                                              identifier, identifier_type, is_valid),
                  fault |-> fault, raised |-> TryExcept(exc)]
       /\ UNCHANGED <<last_schools_count, intelligence, ENABLE_CACHE, obj, enabled, tables, now, school_cache,
                      lastSet, getHits, swept, calls>>

\* IntelligenceCache.clear_expired; the clock is read for the first DELETE,
\* then again, `drift` hours later, for the second; the commit precedes VACUUM
ClearExpired(drift, fault) ==
    LET exc == fault # "none"
        deleted_school == ~Disabled(enabled) /\ fault \notin {"connect", "delete_school"}
        deleted_verification == deleted_school /\ fault # "delete_verification"
        committed == deleted_verification /\ fault # "commit"
        working_school == IF deleted_school THEN DeleteExpired(school_cache, now)
                          ELSE school_cache
        working_verification ==
            IF deleted_verification
            THEN DeleteOldVerification(verification_cache, (now + drift) - WeekHours)
            ELSE verification_cache
    IN /\ obj = "built"
       /\ ~enabled => fault = "none"
       /\ ~deleted_school => drift = 0
       /\ school_cache' = (IF committed THEN working_school
                           ELSE WithConnection(school_cache, working_school, exc))
       /\ verification_cache' = (IF committed THEN working_verification
                                 ELSE WithConnection(verification_cache,
                                                     working_verification, exc))
       /\ now' = now + drift
       /\ ret' = [op |-> "clear_expired", fault |-> fault, raised |-> TryExcept(exc),
                  at |-> now,
                  again |-> /\ ret.op = "clear_expired"
                            /\ ret.fault = "none"
                            /\ ret.deleted > 0
                            /\ ret.at = now,
                  deleted |-> Cardinality(school_cache \ school_cache')
                              + Cardinality(verification_cache \ verification_cache'),
                  removed |-> {[cache_key |-> r.cache_key, hit_count |-> r.hit_count] :
                                 r \in school_cache \ school_cache'}]
       /\ lastSet' = (IF enabled THEN [k \in Keys |-> NoSet] ELSE lastSet)
       /\ getHits' = (IF enabled THEN [k \in Keys |-> 0] ELSE getHits)
       /\ swept' = (swept \/ enabled)
       /\ UNCHANGED <<last_schools_count, intelligence, ENABLE_CACHE, obj, enabled, tables, calls>>

\* IntelligenceCache.get_stats
GetStats(fault) ==
    LET exc == fault # "none"
    IN /\ obj = "built"
       /\ ~enabled => fault = "none"
       /\ ret' = [op |-> "get_stats",
                  value |-> IF Disabled(enabled) THEN [enabled |-> FALSE]
                            ELSE IF exc THEN [enabled |-> TRUE, error |-> fault]
                            ELSE Stats(school_cache, verification_cache, now),
                  fault |-> fault, raised |-> TryExcept(exc)]
       /\ UNCHANGED <<last_schools_count, intelligence, ENABLE_CACHE, obj, enabled, tables, now, school_cache,
                      verification_cache, lastSet, getHits, swept, calls>>

----------------------------------------------------------------------------
(* The general cache used by one caller, with a working store *)

Next ==
    \/ Construct("none")
    \/ Tick(Hours)
    \/ \E l \in Lookups : Get(l[1], l[2], "none")
    \/ \E i \in SetInputs, drift \in 0..MaxDrift :
            /\ now + drift \in Hours
            /\ drift > 0 => i \in DriftSetInputs
            /\ Set(i[1][1], i[1][2], i[2], i[3], i[4], drift, "none")
    \/ \E drift \in 0..MaxDrift : now + drift \in Hours /\ ClearExpired(drift, "none")
    \/ GetStats("none")

Spec == Init /\ [][Next]_vars

----------------------------------------------------------------------------
(* The verification cache used by one caller over more than seven days *)

NextVerify ==
    \/ Construct("none")
    \/ Tick(WeekInstants)
    \/ \E id \in Identifiers, ty \in IdentifierTypes : GetVerification(id, ty, "none")
    \/ \E i \in VerificationInputs : SetVerification(i[1], i[2], i[3], i[4], i[5], "none")
    \/ \E drift \in 0..MaxDrift :
            now + drift \in WeekInstants /\ ClearExpired(drift, "none")

SpecVerify == Init /\ [][NextVerify]_vars

----------------------------------------------------------------------------
(* Both tables and the sweep, over more than seven days *)

NextSweep ==
    \/ Construct("none")
    \/ Tick(WeekInstants)
    \/ Get(OakLower[1], OakLower[2], "none")
    \/ \E i \in SweepSetInputs :
            Set(i[1][1], i[1][2], i[2], i[3], i[4], 0, "none")
    \/ \E i \in SweepVerificationInputs :
            SetVerification(i[1], i[2], i[3], i[4], i[5], "none")
    \/ \E drift \in 0..MaxDrift :
            now + drift \in WeekInstants /\ ClearExpired(drift, "none")

SpecSweep == Init /\ [][NextSweep]_vars

----------------------------------------------------------------------------
(* Every operation on a cache that the configuration has switched off *)

InitDisabled == Init /\ ENABLE_CACHE = FALSE

NextDisabled ==
    \/ Construct("none")
    \/ Tick(WeekInstants)
    \/ \E l \in AllLookups : Get(l[1], l[2], "none")
    \/ \E i \in SetInputs : Set(i[1][1], i[1][2], i[2], i[3], i[4], 0, "none")
    \/ \E id \in Identifiers, ty \in IdentifierTypes : GetVerification(id, ty, "none")
    \/ \E i \in VerificationInputs : SetVerification(i[1], i[2], i[3], i[4], i[5], "none")
    \/ ClearExpired(0, "none")
    \/ GetStats("none")

SpecDisabled == InitDisabled /\ [][NextDisabled]_vars

----------------------------------------------------------------------------
(* One caller on a store that can fail at any place of any call *)

FaultSetInputs ==
    {<<OakLower, DGood, UrlsOne, PyInt(1)>>, <<OakLower, DPoor, PyNone, PyInt(1)>>,
     <<OakLower, DSet, PyNone, PyInt(1)>>}

\* the clock readings on the failing store: the start, an hour later, and
\* seven days after each
FaultInstants == {0, 1, WeekHours, WeekHours + 1}

NextFault ==
    \/ \E f \in NoFault \cup InitFaults : Construct(f)
    \/ Tick(FaultInstants)
    \/ \E f \in NoFault \cup GetFaults : Get(OakLower[1], OakLower[2], f)
    \/ \E i \in FaultSetInputs, f \in NoFault \cup SetFaults :
            Set(i[1][1], i[1][2], i[2], i[3], i[4], 0, f)
    \/ \E f \in NoFault \cup GetVerificationFaults : GetVerification("07123", "phone", f)
    \/ \E v \in BOOLEAN, f \in NoFault \cup SetVerificationFaults :
            SetVerification("07123", "phone", v, 92, PyNone, f)
    \/ \E f \in NoFault \cup ClearFaults : ClearExpired(0, f)
    \/ \E f \in NoFault \cup StatsFaults : GetStats(f)

SpecFault == Init /\ [][NextFault]_vars

----------------------------------------------------------------------------
(* Both tables under get_stats: two schools that are hit, entries that     *)
(* expire and verifications that go stale                                  *)

StatsLookups == {OakLower, Elm}
StatsVerificationInputs == {<<"07123", "phone", TRUE, 92, PyNone>>}

NextStats ==
    \/ Construct("none")
    \/ Tick(WeekInstants)
    \/ \E l \in StatsLookups : Get(l[1], l[2], "none")
    \/ \E i \in SweepSetInputs :
            Set(i[1][1], i[1][2], i[2], i[3], i[4], 0, "none")
    \/ \E i \in StatsVerificationInputs :
            SetVerification(i[1], i[2], i[3], i[4], i[5], "none")
    \/ GetStats("none")

SpecStats == Init /\ [][NextStats]_vars

----------------------------------------------------------------------------
(* Lookups whose names and kinds contain the separator of the key *)

\* the name "a" with the kind "b:c", beside Elm, the name "a:b" with the
\* kind "c"
ElmTwin == <<<<"a">>, <<"b", ":", "c">>>>
KeyLookups == {OakLower, Elm, ElmTwin}
KeySetInputs ==
    {<<OakLower, DGood, PyNone, PyInt(MaxTtl)>>, <<Elm, DGood, UrlsOne, PyInt(MaxTtl)>>,
     <<ElmTwin, DPoor, PyNone, PyNone>>}

NextKeys ==
    \/ Construct("none")
    \/ Tick(Hours)
    \/ \E l \in KeyLookups : Get(l[1], l[2], "none")
    \/ \E i \in KeySetInputs : Set(i[1][1], i[1][2], i[2], i[3], i[4], 0, "none")

SpecKeys == Init /\ [][NextKeys]_vars

----------------------------------------------------------------------------
(* One key written with negative, zero, positive and default ttl           *)

TtlSetInputs ==
    {<<OakLower, d, PyNone, h>> :
        d \in DataInputs, h \in {PyNone} \cup {PyInt(n) : n \in -1..MaxTtl}}

NextTtl ==
    \/ Construct("none")
    \/ Tick(Hours)
    \/ Get(OakLower[1], OakLower[2], "none")
    \/ \E i \in TtlSetInputs : Set(i[1][1], i[1][2], i[2], i[3], i[4], 0, "none")

SpecTtl == Init /\ [][NextTtl]_vars

----------------------------------------------------------------------------
(* Concurrent callers: threads or processes, each with its own connection  *)
(* to the one database file.  A call advances one statement at a time.     *)
(* SQLite lets one connection at a time hold a write transaction, from its *)
(* first INSERT, UPDATE or DELETE (sqlite3 begins the transaction before   *)
(* it) to its commit; the work of an open transaction is private to its    *)
(* connection; a statement that finds the database locked past the busy    *)
(* timeout raises, and the call's except clause ends the call.  A SELECT   *)
(* outside a transaction reads the committed rows and holds no lock after  *)
(* its last row has been fetched.                                          *)
(***************************************************************************)

\* the statements after which a caller holds the write transaction
WritingPcs == {"get_commit", "set_commit", "clear_delete_verification", "clear_commit"}

\* the calls in flight that are at one of the statements S
CallsAt(S) == {c \in BagToSet(calls) : c.pc \in S}

\* mutant: write transactions do not exclude each other
CanWrite_NoLock(c) == TRUE

\* the database is not locked by another connection's write transaction
CanWrite(c) == CallsAt(WritingPcs) = {}

\* the inputs of the concurrent callers: one school, a payload with a short
\* ttl and a payload with the default ttl
ConcLookup == OakLower
ConcSetInputs == {<<OakLower, DGood, PyNone, PyInt(MaxTtl)>>, <<OakLower, DPoor, PyNone, PyNone>>}

\* a caller enters a call; NumProcs callers share the store
Enter(c) ==
    /\ BagCardinality(calls) < NumProcs
    /\ calls' = calls (+) SetToBag({c})

\* the call c moves to its next statement, as d
Goto(c, d) == calls' = (calls (-) SetToBag({c})) (+) SetToBag({d})

\* the call c returns
Return(c) == calls' = calls (-) SetToBag({c})

\* get, lines 76-94: the key, the clock reading and the SELECT; with no live
\* row, or switched off, the call returns None at once
ConcGetSelect(school_name, data_type) ==
    LET cache_key == GenerateKey(school_name, data_type)
        rows == SelectLive(school_cache, cache_key, now)
        gets == CallsAt({"get_update", "get_commit"})
        inflight == BagCardinality([c \in gets |-> calls[c]])
    IN /\ obj = "built"
       /\ \A r \in rows : r.hit_count + inflight < MaxHits
       /\ IF Disabled(enabled) \/ rows = {}
          THEN /\ BagCardinality(calls) < NumProcs
               /\ UNCHANGED calls
          ELSE Enter([pc |-> "get_update", cache_key |-> cache_key,
                      row |-> CHOOSE r \in rows : TRUE])
       /\ UNCHANGED <<last_schools_count, intelligence, ENABLE_CACHE, obj, enabled, tables, now, school_cache,
                      verification_cache, ret, lastSet, getHits, swept>>

\* get, lines 98-102: the UPDATE opens the write transaction
ConcGetUpdate(c) ==
    /\ c.pc = "get_update"
    /\ CanWrite(c)
    /\ Goto(c, [pc |-> "get_commit", cache_key |-> c.cache_key, row |-> c.row,
                school |-> UpdateHit(school_cache, c.cache_key)])
    /\ UNCHANGED <<last_schools_count, intelligence, ENABLE_CACHE, obj, enabled, tables, now, school_cache,
                   verification_cache, ret, lastSet, getHits, swept>>

\* get, lines 104-109: the hit is built from the selected row and the
\* connection commits as the with block is left
ConcGetCommit(c) ==
    /\ c.pc = "get_commit"
    /\ school_cache' = WithConnection(school_cache, c.school, FALSE)
    /\ getHits' = (IF swept THEN getHits
                   ELSE [getHits EXCEPT ![c.cache_key] = @ + 1])
    /\ Return(c)
    /\ UNCHANGED <<last_schools_count, intelligence, ENABLE_CACHE, obj, enabled, tables, now, verification_cache,
                   ret, lastSet, swept>>

\* set, lines 116-126: the key and the clock reading for expires_at
ConcSetBegin(school_name, data_type, data, source_urls, ttl_hours) ==
    LET ttl == TtlOrDefault(ttl_hours)
    IN /\ obj = "built"
       /\ IF Disabled(enabled)
          THEN /\ BagCardinality(calls) < NumProcs
               /\ UNCHANGED calls
          ELSE Enter([pc |-> "set_insert",
                      cache_key |-> GenerateKey(school_name, data_type),
                      school_name |-> school_name, data_type |-> data_type,
                      data |-> data, source_urls |-> source_urls,
                      ttl |-> ttl, expires_at |-> now + ttl])
       /\ UNCHANGED <<last_schools_count, intelligence, ENABLE_CACHE, obj, enabled, tables, now, school_cache,
                      verification_cache, ret, lastSet, getHits, swept>>

\* set, lines 130-141: the INSERT OR REPLACE opens the write transaction and
\* reads the prior hit count in the same statement
ConcSetInsert(c) ==
    LET row == [cache_key |-> c.cache_key,
                school_name |-> c.school_name,
                data_type |-> c.data_type,
                data |-> SqlText(json_dumps(c.data)),
                created_at |-> now,
                expires_at |-> c.expires_at,
                source_urls |-> IF Truthy(c.source_urls)
                                THEN SqlText(json_dumps(c.source_urls))
                                ELSE SqlNull,
                hit_count |-> CoalesceHitCount(school_cache, c.cache_key)]
    IN /\ c.pc = "set_insert"
       /\ CanWrite(c)
       /\ Goto(c, [pc |-> "set_commit", cache_key |-> c.cache_key, data |-> c.data,
                   source_urls |-> c.source_urls, ttl |-> c.ttl,
                   expires_at |-> c.expires_at,
                   school |-> ReplaceSchool(school_cache, row)])
       /\ UNCHANGED <<last_schools_count, intelligence, ENABLE_CACHE, obj, enabled, tables, now, school_cache,
                      verification_cache, ret, lastSet, getHits, swept>>

\* set, line 142: conn.commit()
ConcSetCommit(c) ==
    /\ c.pc = "set_commit"
    /\ school_cache' = WithConnection(school_cache, c.school, FALSE)
    /\ lastSet' = [lastSet EXCEPT ![c.cache_key] =
                     [known |-> TRUE, data |-> c.data, source_urls |-> c.source_urls,
                      ttl |-> c.ttl, expires_at |-> c.expires_at,
                      in_sweep |-> CallsAt({"clear_delete_school"}) # {},
                      survived |-> FALSE]]
    /\ Return(c)
    /\ UNCHANGED <<last_schools_count, intelligence, ENABLE_CACHE, obj, enabled, tables, now, verification_cache,
                   ret, getHits, swept>>

\* clear_expired, lines 205-215: the clock reading for the first DELETE
ConcClearBegin ==
    /\ obj = "built"
    /\ IF Disabled(enabled)
       THEN /\ BagCardinality(calls) < NumProcs
            /\ UNCHANGED <<calls, swept, getHits>>
       ELSE /\ Enter([pc |-> "clear_delete_school", t |-> now])
            /\ swept' = TRUE
            /\ getHits' = [k \in Keys |-> 0]
    /\ UNCHANGED <<last_schools_count, intelligence, ENABLE_CACHE, obj, enabled, tables, now, school_cache,
                   verification_cache, ret, lastSet>>

\* clear_expired, lines 213-215: the first DELETE opens the write transaction
ConcClearDeleteSchool(c) ==
    /\ c.pc = "clear_delete_school"
    /\ CanWrite(c)
    /\ Goto(c, [pc |-> "clear_delete_verification",
                school |-> DeleteExpired(school_cache, c.t),
                verification |-> verification_cache])
    /\ UNCHANGED <<last_schools_count, intelligence, ENABLE_CACHE, obj, enabled, tables, now, school_cache,
                   verification_cache, ret, lastSet, getHits, swept>>

\* clear_expired, lines 218-221: the second clock reading and DELETE
ConcClearDeleteVerification(c) ==
    /\ c.pc = "clear_delete_verification"
    /\ Goto(c, [pc |-> "clear_commit",
                school |-> c.school,
                verification |-> DeleteOldVerification(c.verification,
                                                       now - WeekHours)])
    /\ UNCHANGED <<last_schools_count, intelligence, ENABLE_CACHE, obj, enabled, tables, now, school_cache,
                   verification_cache, ret, lastSet, getHits, swept>>

\* clear_expired, line 223: conn.commit()
ConcClearCommit(c) ==
    /\ c.pc = "clear_commit"
    /\ school_cache' = WithConnection(school_cache, c.school, FALSE)
    /\ verification_cache' = WithConnection(verification_cache, c.verification, FALSE)
    /\ Goto(c, [pc |-> "clear_vacuum"])
    /\ lastSet' = [k \in Keys |->
                     IF lastSet[k].known /\ lastSet[k].in_sweep
                          /\ \E r \in c.school : r.cache_key = k
                     THEN [lastSet[k] EXCEPT !.survived = TRUE]
                     ELSE lastSet[k]]
    /\ UNCHANGED <<last_schools_count, intelligence, ENABLE_CACHE, obj, enabled, tables, now, ret, getHits, swept>>

\* clear_expired, line 226: VACUUM, which rewrites the file and changes no
\* row; finding the database locked, it raises and the call ends as well
ConcClearVacuum(c) ==
    /\ c.pc = "clear_vacuum"
    /\ Return(c)
    /\ UNCHANGED <<last_schools_count, intelligence, ENABLE_CACHE, obj, enabled, tables, now, school_cache,
                   verification_cache, ret, lastSet, getHits, swept>>

\* lines 111-112, 144-145, 228-229: the statement that would open the write
\* transaction finds the database locked until the busy timeout; the
\* exception is logged and the call returns having written nothing
ConcBusy(c) ==
    /\ c.pc \in {"get_update", "set_insert", "clear_delete_school"}
    /\ ~CanWrite(c)
    /\ Return(c)
    /\ UNCHANGED <<last_schools_count, intelligence, ENABLE_CACHE, obj, enabled, tables, now, school_cache,
                   verification_cache, ret, lastSet, getHits, swept>>

NextConc ==
    \/ Construct("none")
    \/ Tick(Hours)
    \/ ConcGetSelect(ConcLookup[1], ConcLookup[2])
    \/ \E i \in ConcSetInputs : ConcSetBegin(i[1][1], i[1][2], i[2], i[3], i[4])
    \/ ConcClearBegin
    \/ \E c \in BagToSet(calls) : ConcGetUpdate(c)
    \/ \E c \in BagToSet(calls) : ConcGetCommit(c)
    \/ \E c \in BagToSet(calls) : ConcSetInsert(c)
    \/ \E c \in BagToSet(calls) : ConcSetCommit(c)
    \/ \E c \in BagToSet(calls) : ConcClearDeleteSchool(c)
    \/ \E c \in BagToSet(calls) : ConcClearDeleteVerification(c)
    \/ \E c \in BagToSet(calls) : ConcClearCommit(c)
    \/ \E c \in BagToSet(calls) : ConcClearVacuum(c)
    \/ \E c \in BagToSet(calls) : ConcBusy(c)

SpecConc == Init /\ [][NextConc]_vars

----------------------------------------------------------------------------
(* FinancialDataEngine: a sequence of get_recruitment_intelligence calls   *)
(* on one engine.  The web is an input: what get_school_urn finds and what *)
(* the FBIT page or the search fallback yields.                            *)

\* int(x * 0.25), int(x * 0.2), int(x * 0.3) of a non-negative int x: the
\* float product truncated toward zero
IntQuarter(x) == x \div 4
IntFifth(x) == (2 * x) \div 10
IntThreeTenths(x) == (3 * x) \div 10
\* int(x / n) of non-negative ints: true division, truncated toward zero
IntDiv(x, n) == x \div n

PyStr(s) == [py |-> "str", v |-> s]
\* the engine has no attribute _last_schools_count until one is stored
NoAttribute == [py |-> "no attribute"]

\* truthiness of an optional int: None and 0 are falsy
TruthyInt(x) == x # PyNone /\ x.v # 0

\* what get_school_urn returns: no URN; a school (schools_count stays None,
\* lines 97-111, or the key is missing, lines 521-527); a trust with the
\* number of schools its text states, or None when it states none
UrnNotFound == [urn |-> PyNone]
UrnResults ==
    {UrnNotFound}
      \cup {[urn |-> PyStr("141133"), is_trust |-> FALSE, schools_in_trust |-> PyNone]}
      \cup {[urn |-> PyStr("3319"), is_trust |-> TRUE, schools_in_trust |-> n] :
               n \in {PyNone} \cup {PyInt(k) : k \in 0..MaxSchools}}

\* the figures parsed for the URN: whether the FBIT page was fetched (else the
\* search fallback runs), indirect_employee_expenses and supply_staff_costs
\* in pounds, PyNone when the text has no such figure
Expenses == {PyNone, PyInt(1000), PyInt(1300)}
SupplyCosts == {PyNone, PyInt(0), PyInt(500)}
Pages ==
    [fetched : BOOLEAN, indirect_employee_expenses : Expenses,
     supply_staff_costs : SupplyCosts]

\* the schools count a lookup found itself, 0 when it found none
SchoolsCount_ThisLookup(schools_in_trust) ==
    IF TruthyInt(schools_in_trust) THEN schools_in_trust.v ELSE 0

\* get_financial_data, line 256: the attribute of the engine, 0 when falsy
SchoolsCount(attr, schools_in_trust) ==
    IF attr = NoAttribute THEN 0 ELSE attr.v

\* get_financial_data, lines 254-277: the recruitment estimates
RecruitmentEstimates(page, is_trust, schools) ==
    LET indirect == page.indirect_employee_expenses.v
        total_recruitment == IntQuarter(indirect)
    IN IF is_trust /\ schools # 0
       THEN [recruitment_estimates |->
                [total_trust |-> total_recruitment,
                 per_school_avg |-> IntDiv(total_recruitment, schools),
                 explanation |-> schools],
             per_school_estimates |->
                [avg_indirect_employee |-> IntDiv(indirect, schools),
                 avg_supply |-> IF TruthyInt(page.supply_staff_costs)
                                THEN PyInt(IntDiv(page.supply_staff_costs.v, schools))
                                ELSE PyNone]]
       ELSE [recruitment_estimates |->
                [low |-> IntFifth(indirect),
                 high |-> IntThreeTenths(indirect),
                 midpoint |-> IntQuarter(indirect)]]

\* get_financial_data: the search fallback (line 190) computes no estimates,
\* nor does a page without indirect employee expenses (line 254)
GetFinancialData(page, is_trust, schools) ==
    IF page.fetched /\ page.indirect_employee_expenses # PyNone
    THEN [figures |-> page, estimates |-> RecruitmentEstimates(page, is_trust, schools)]
    ELSE [figures |-> page, estimates |-> PyNone]

\* FinancialDataEngine.get_recruitment_intelligence
GetRecruitmentIntelligence(urn_result, page) ==
    LET stored == IF urn_result.urn # PyNone /\ TruthyInt(urn_result.schools_in_trust)
                  THEN urn_result.schools_in_trust
                  ELSE last_schools_count
    IN /\ last_schools_count' = stored
       /\ intelligence' =
            IF urn_result.urn = PyNone
            THEN [error |-> "Could not find school or trust URN"]
            ELSE [entity_found |-> [urn |-> urn_result.urn,
                                    is_trust |-> urn_result.is_trust,
                                    schools_in_trust |-> urn_result.schools_in_trust],
                  financial |-> GetFinancialData(page, urn_result.is_trust,
                                    SchoolsCount(stored, urn_result.schools_in_trust))]
       /\ UNCHANGED cacheVars

NextEngine ==
    \E urn_result \in UrnResults, page \in Pages :
        GetRecruitmentIntelligence(urn_result, page)

SpecEngine == Init /\ [][NextEngine]_vars

----------------------------------------------------------------------------
(* get_stats among concurrent callers.  Its queries are separate SELECTs   *)
(* on one connection with no transaction open, so each of them reads the   *)
(* rows committed when it runs.                                            *)

\* get_stats, lines 231-242: SELECT COUNT(*) FROM school_cache
ConcStatsTotal ==
    /\ obj = "built"
    /\ IF Disabled(enabled)
       THEN /\ BagCardinality(calls) < NumProcs
            /\ ret' = [op |-> "get_stats", value |-> [enabled |-> FALSE],
                       fault |-> "none", raised |-> FALSE]
            /\ UNCHANGED calls
       ELSE /\ Enter([pc |-> "stats_active",
                      total_entries |-> Cardinality(school_cache)])
            /\ UNCHANGED ret
    /\ UNCHANGED <<last_schools_count, intelligence, ENABLE_CACHE, obj, enabled, tables, now, school_cache,
                   verification_cache, lastSet, getHits, swept>>

\* get_stats, lines 245-248: the clock reading and the count of the rows
\* with expires_at > ?
ConcStatsActive(c) ==
    /\ c.pc = "stats_active"
    /\ Goto(c, [pc |-> "stats_hits", total_entries |-> c.total_entries,
                active_entries |-> Cardinality({r \in school_cache : r.expires_at > now})])
    /\ UNCHANGED <<last_schools_count, intelligence, ENABLE_CACHE, obj, enabled, tables, now, school_cache,
                   verification_cache, ret, lastSet, getHits, swept>>

\* get_stats, lines 251-255: SELECT SUM(hit_count), AVG(hit_count),
\* MAX(hit_count), one statement
ConcStatsHits(c) ==
    /\ c.pc = "stats_hits"
    /\ Goto(c, [pc |-> "stats_return", total_entries |-> c.total_entries,
                active_entries |-> c.active_entries,
                total_hits |-> SumHits(school_cache),
                average_hits |-> IF school_cache = {} THEN 0
                                 ELSE RoundHalfEven(100 * SumHits(school_cache),
                                                    Cardinality(school_cache)),
                max_hits |-> MaxHitCount(school_cache)])
    /\ UNCHANGED <<last_schools_count, intelligence, ENABLE_CACHE, obj, enabled, tables, now, school_cache,
                   verification_cache, ret, lastSet, getHits, swept>>

\* get_stats, lines 258-282: the count of the verification rows, the size
\* of the file, and the dictionary returned
ConcStatsReturn(c) ==
    /\ c.pc = "stats_return"
    /\ Return(c)
    /\ ret' = [op |-> "get_stats",
               value |-> [enabled |-> TRUE,
                          total_entries |-> c.total_entries,
                          active_entries |-> c.active_entries,
                          expired_entries |-> c.total_entries - c.active_entries,
                          total_hits |-> c.total_hits,
                          average_hits |-> c.average_hits,
                          max_hits |-> c.max_hits,
                          verification_entries |-> Cardinality(verification_cache),
                          hit_rate |-> HitRate(c.total_hits, c.total_entries)],
               fault |-> "none", raised |-> FALSE]
    /\ UNCHANGED <<last_schools_count, intelligence, ENABLE_CACHE, obj, enabled, tables, now, school_cache,
                   verification_cache, lastSet, getHits, swept>>

NextConcStats ==
    \/ NextConc
    \/ ConcStatsTotal
    \/ \E c \in BagToSet(calls) : ConcStatsActive(c)
    \/ \E c \in BagToSet(calls) : ConcStatsHits(c)
    \/ \E c \in BagToSet(calls) : ConcStatsReturn(c)

SpecConcStats == Init /\ [][NextConcStats]_vars

----------------------------------------------------------------------------
(* Properties *)

\* the source URLs a caller passed, as the list get gives back
UrlList(source_urls) == IF source_urls = PyNone THEN <<>> ELSE source_urls.items

\* the hit that get owes to the set recorded in g
HitOf(g) ==
    [cached |-> TRUE, data |-> g.data, source_urls |-> UrlList(g.source_urls),
     expires_at |-> g.expires_at]

\* C1: after set(name, kind, payload, urls, ttl) with ttl > 0 at time t and no
\* later set or clear_expired on the key, a get before t + ttl returns a hit
\* with cached = TRUE and exactly that payload, those URLs and that expiry,
\* and a get after t + ttl returns absent.  It is stated of the get just
\* made (ret) and of the get that could be made now, under every spelling.
C1_GetAfterSet ==
    enabled =>
      \A l \in Lookups :
        LET g == lastSet[GenerateKey(l[1], l[2])]
            made == ret.op = "get" /\ ret.school_name = l[1] /\ ret.data_type = l[2]
        IN (g.known /\ g.ttl > 0) =>
             /\ now < g.expires_at =>
                  /\ GetResult(school_cache, l[1], l[2], now) = HitOf(g)
                  /\ made => ret.value = HitOf(g)
             /\ now > g.expires_at =>
                  /\ GetResult(school_cache, l[1], l[2], now) = Absent
                  /\ made => ret.value = Absent

C1_Witness ==
    /\ ret.op = "get"
    /\ ret.value.cached
    /\ ret.value.source_urls # <<>>
    /\ lastSet[GenerateKey(ret.school_name, ret.data_type)].known
    /\ now > 0

\* C2: with no clear_expired so far, the stored hit_count of every key is
\* the number of gets on that key that returned a hit; a set that overwrites
\* the key leaves the count as it was.
C2_HitCountCountsHits ==
    ~swept => \A r \in school_cache : r.hit_count = getHits[r.cache_key]

\* set; get; set; get on one key: the second set has overwritten a row that
\* had been hit, and the second get has brought the count to 2
C2_Witness ==
    /\ ~swept
    /\ ret.op = "get"
    /\ \E r \in school_cache :
         /\ r.hit_count = 2
         /\ r.cache_key = GenerateKey(ret.school_name, ret.data_type)
         /\ r.created_at = now
         /\ now > 0

\* C7: two entity names that are equal after lower-casing, with the same
\* data kind, are answered from the same entry, and sets under either name
\* leave a single row.
C7_CaseInsensitiveKey ==
    \A l1 \in Lookups, l2 \in Lookups :
      (Lower(l1[1]) = Lower(l2[1]) /\ l1[2] = l2[2]) =>
        /\ GetResult(school_cache, l1[1], l1[2], now)
             = GetResult(school_cache, l2[1], l2[2], now)
        /\ Cardinality({r \in school_cache :
                          /\ Lower(r.school_name) = Lower(l1[1])
                          /\ r.data_type = l1[2]}) <= 1

\* a get under one spelling is answered from the row a set stored under the
\* other
C7_Witness ==
    /\ ret.op = "get"
    /\ ret.value.cached
    /\ \E r \in school_cache :
         /\ r.cache_key = GenerateKey(ret.school_name, ret.data_type)
         /\ r.school_name # ret.school_name

\* C3: set_verification(id, t2, ...) does not change what
\* get_verification(id, t1) returns for a type t1 other than t2 (nor for
\* another identifier): entries are keyed by the pair.
C3_KeyedByPair ==
    [][ret'.op = "set_verification" =>
         \A id \in Identifiers, ty \in IdentifierTypes :
           <<id, ty>> # <<ret'.identifier, ret'.identifier_type>> =>
             GetVerificationResult(verification_cache', id, ty, now')
               = GetVerificationResult(verification_cache, id, ty, now)]_vars

\* C4: get_verification returns an entry only if its verified_at is strictly
\* later than now - 7 days; a stored entry verified 7 days ago or earlier is
\* answered with absent, whatever its is_valid.
C4_SevenDayWindow ==
    /\ \A id \in Identifiers, ty \in IdentifierTypes :
         LET v == GetVerificationResult(verification_cache, id, ty, now)
         IN v.cached => v.verified_at > now - WeekHours
    /\ \A r \in verification_cache :
         r.verified_at <= now - WeekHours =>
           GetVerificationResult(verification_cache, r.identifier,
                                 r.identifier_type, now) = Absent
    /\ (ret.op = "get_verification" /\ ret.value.cached) =>
         ret.value.verified_at > now - WeekHours

\* a valid entry verified exactly seven days ago has just been refused
C4_Witness ==
    /\ ret.op = "get_verification"
    /\ ret.value = Absent
    /\ \E r \in verification_cache :
         /\ r.identifier = ret.identifier
         /\ r.identifier_type = ret.identifier_type
         /\ r.is_valid = 1
         /\ r.verified_at = now - WeekHours

\* C5: clear_expired removes exactly the general-cache rows with
\* expires_at < t and exactly the verification rows with
\* verified_at < t - 7 days, t being the clock reading taken for each
\* DELETE; every other row of both tables stays, with every field unchanged.
C5_SweepRemovesExactlyExpired ==
    [][(ret'.op = "clear_expired" /\ enabled) =>
         /\ school_cache' = {r \in school_cache : ~(r.expires_at < now)}
         /\ verification_cache'
              = {r \in verification_cache : ~(r.verified_at < now' - WeekHours)}]_vars

\* a sweep has just removed rows and has left rows in both tables, one of
\* them expiring at the very instant of the sweep
C5_Witness ==
    /\ ret.op = "clear_expired"
    /\ ret.deleted >= 2
    /\ verification_cache # {}
    /\ \E r \in school_cache : r.expires_at = now /\ r.hit_count > 0

\* C6: with the cache switched off, construction creates no tables, no call
\* changes the store, get and get_verification return absent after any
\* sequence of calls, and get_stats returns only enabled = FALSE.
C6_DisabledIsInert ==
    (obj = "built" /\ ~ENABLE_CACHE) =>
      /\ tables = {}
      /\ school_cache = {}
      /\ verification_cache = {}
      /\ ret.op \in {"get", "get_verification"} => ret.value = Absent
      /\ ret.op = "get_stats" => ret.value = [enabled |-> FALSE]
      /\ ~ret.raised

\* a get has just answered absent on a switched-off cache, some time after
\* its construction
C6_Witness ==
    /\ obj = "built"
    /\ ~ENABLE_CACHE
    /\ ret.op = "get"
    /\ ret.value = Absent
    /\ now > 0

GuardedCalls == {"get", "get_verification", "set", "set_verification", "clear_expired"}

\* C8 as stated: a storage failure during get, get_verification, set,
\* set_verification or clear_expired never reaches the caller; the reads
\* return absent and the writes leave the stored rows as they were.
C8_FailedCallChangesNothing ==
    [][(ret'.op \in GuardedCalls /\ ret'.fault # "none") =>
         /\ ~ret'.raised
         /\ ret'.op \in {"get", "get_verification"} => ret'.value = Absent
         /\ school_cache' = school_cache
         /\ verification_cache' = verification_cache]_vars

\* C8, amended: as above, except that a clear_expired that fails in VACUUM,
\* after its commit, has removed exactly the expired rows.
C8_FailedCallIsAbsorbed ==
    [][(ret'.op \in GuardedCalls /\ ret'.fault # "none") =>
         /\ ~ret'.raised
         /\ ret'.op \in {"get", "get_verification"} => ret'.value = Absent
         /\ IF ret'.op = "clear_expired" /\ ret'.fault = "vacuum"
            THEN /\ school_cache' = {r \in school_cache : ~(r.expires_at < now)}
                 /\ verification_cache'
                      = {r \in verification_cache : ~(r.verified_at < now - WeekHours)}
            ELSE /\ school_cache' = school_cache
                 /\ verification_cache' = verification_cache]_vars

\* a get found a live row, failed at its commit and answered absent
C8_Witness ==
    /\ ret.op = "get"
    /\ ret.fault = "commit"
    /\ ret.value = Absent
    /\ \E r \in SelectLive(school_cache, GenerateKey(ret.school_name, ret.data_type), now) :
         r.hit_count = 1

\* C9: with concurrent sets and gets on one key and no clear_expired, no
\* hit-count update is lost: the committed hit_count of the key is the
\* number of gets that returned a hit, at every moment and so once all
\* calls have completed; a concurrent set never resets it.
C9_NoLostHit ==
    ~swept => \A r \in school_cache : r.hit_count = getHits[r.cache_key]

\* a get has selected the row at hit count 0 and has yet to update it,
\* another get has since committed its hit, and a set holds the write
\* transaction, its row carrying the committed count
C9_Witness ==
    /\ ~swept
    /\ \E c, d \in BagToSet(calls) :
         /\ c.pc = "get_update"
         /\ c.row.hit_count = 0
         /\ d.pc = "set_commit"
         /\ \E r \in d.school : r.hit_count = 1 /\ r.created_at > 0
         /\ \E r \in school_cache : r.cache_key = c.cache_key /\ r.hit_count = 1

\* C10: a row written by a set with positive ttl is not removed by a
\* concurrent clear_expired while it is unexpired: whatever sweeps ran or
\* are running, the committed store answers a get made before the row's
\* expiry with the payload of the last committed set.
C10_SweepSparesFreshRow ==
    enabled =>
      LET g == lastSet[GenerateKey(ConcLookup[1], ConcLookup[2])]
      IN (g.known /\ g.ttl > 0 /\ now < g.expires_at) =>
           GetResult(school_cache, ConcLookup[1], ConcLookup[2], now) = HitOf(g)

\* a set committed after a sweep had read its clock and before the
\* sweep's DELETE ran; the sweep has since deleted and committed, every call
\* has completed and the row is still unexpired
C10_Witness ==
    /\ swept
    /\ calls = EmptyBag
    /\ LET g == lastSet[GenerateKey(ConcLookup[1], ConcLookup[2])]
       IN /\ g.known
          /\ g.in_sweep
          /\ g.survived
          /\ now < g.expires_at
          /\ now > 0

\* C11: set_verification(id, type, is_valid, score, details) overwrites
\* whatever entry the pair had and stamps it with the current time: on the
\* store it leaves, get_verification(id, type) at any time less than 7 days
\* later returns cached = TRUE with exactly that is_valid and score and
\* the time of the set, also when the entry overwritten was older than 7
\* days or carried other values.
C11_SetVerificationOverwrites ==
    [][(ret'.op = "set_verification" /\ enabled /\ ret'.fault = "none") =>
         \A t \in WeekInstants :
           (now' <= t /\ t < now' + WeekHours) =>
             LET v == GetVerificationResult(verification_cache', ret'.identifier,
                                            ret'.identifier_type, t)
             IN /\ v.cached
                /\ v.is_valid = ret'.is_valid
                /\ v.confidence_score = ret'.confidence_score
                /\ v.verified_at = now']_vars

\* a set_verification has just overwritten an entry of its pair that was 7
\* days old and carried the opposite is_valid
C11_Witness ==
    /\ ret.op = "set_verification"
    /\ ret.prior = "stale, other outcome"
    /\ GetVerificationResult(verification_cache, ret.identifier,
                             ret.identifier_type, now).cached

\* C12: set changes no hit count.  The row it leaves under its key has the
\* hit_count of the row it found there, live or expired, and 0 when it
\* found none; its payload, source URLs, created_at and expires_at are
\* those of this call; the rows of every other key are left as they were.
C12_SetKeepsHitCounts ==
    [][(ret'.op = "set" /\ enabled) =>
         LET k == GenerateKey(ret'.school_name, ret'.data_type)
             old == {r \in school_cache : r.cache_key = k}
             new == {r \in school_cache' : r.cache_key = k}
         IN /\ Cardinality(new) = 1
            /\ \A n \in new :
                 /\ old = {} => n.hit_count = 0
                 /\ \A o \in old : n.hit_count = o.hit_count
                 /\ n.data = SqlText(json_dumps(ret'.data))
                 /\ n.source_urls = (IF Truthy(ret'.source_urls)
                                     THEN SqlText(json_dumps(ret'.source_urls))
                                     ELSE SqlNull)
                 /\ n.expires_at = now + ret'.ttl
                 /\ n.created_at >= now /\ n.created_at <= now'
            /\ {r \in school_cache' : r.cache_key # k}
                 = {r \in school_cache : r.cache_key # k}]_vars

\* a set has just overwritten an expired row that had been hit, while a
\* row of another key, itself hit, stands
C12_Witness ==
    /\ ret.op = "set"
    /\ ret.prior = "expired"
    /\ \E r \in school_cache :
         /\ r.cache_key = GenerateKey(ret.school_name, ret.data_type)
         /\ r.hit_count > 0
         /\ r.created_at = now
    /\ \E r \in school_cache :
         /\ r.cache_key # GenerateKey(ret.school_name, ret.data_type)
         /\ r.hit_count > 0

\* C13: the general cache never holds two rows of one key; after sets
\* under names and kinds that map to one key, exactly one row of the key
\* exists, with the payload and the expiry of the latest of them.
C13_OneRowPerKey ==
    /\ \A r1 \in school_cache, r2 \in school_cache :
         r1.cache_key = r2.cache_key => r1 = r2
    /\ \A k \in Keys :
         lastSet[k].known =>
           /\ Cardinality({r \in school_cache : r.cache_key = k}) = 1
           /\ \A r \in school_cache :
                r.cache_key = k =>
                  /\ r.data = SqlText(json_dumps(lastSet[k].data))
                  /\ r.expires_at = lastSet[k].expires_at

\* a set under one spelling of a name has just overwritten a live row, and
\* a get under the other spelling has since been answered from it; a row of
\* another key stands beside it
C13_Witness ==
    /\ ret.op = "get"
    /\ ret.value.cached
    /\ ret.value.data = DPoor
    /\ \E r \in school_cache :
         /\ r.cache_key = GenerateKey(ret.school_name, ret.data_type)
         /\ r.school_name # ret.school_name
         /\ r.created_at > 0
         /\ r.hit_count = 2
    /\ Cardinality(school_cache) = 2

\* the hit counts of the rows of cache, added up key by key
RECURSIVE HitsOfKeys(_, _)
HitsOfKeys(cache, keys) ==
    IF keys = {} THEN 0
    ELSE LET k == CHOOSE x \in keys : TRUE
             rows == {r \in cache : r.cache_key = k}
         IN (IF rows = {} THEN 0 ELSE (CHOOSE r \in rows : TRUE).hit_count)
              + HitsOfKeys(cache, keys \ {k})

\* C14: on an enabled cache get_stats at time now reports total_entries =
\* the number of general-cache rows, active_entries = the number of them
\* with expires_at > now, expired_entries = total_entries - active_entries,
\* total_hits and max_hits = the sum and the maximum of hit_count over all
\* rows, expired ones included (0 for an empty table), and
\* verification_entries = the number of verification rows, fresh or not.
C14_StatsCountRows ==
    (ret.op = "get_stats" /\ enabled) =>
      LET v == ret.value
      IN /\ v.enabled
         /\ v.total_entries = Cardinality(school_cache)
         /\ v.active_entries = Cardinality({r \in school_cache : r.expires_at > now})
         /\ v.expired_entries = v.total_entries - v.active_entries
         /\ v.total_hits = HitsOfKeys(school_cache, Keys)
         /\ \A r \in school_cache : r.hit_count <= v.max_hits
         /\ school_cache # {} => \E r \in school_cache : r.hit_count = v.max_hits
         /\ school_cache = {} => v.total_hits = 0 /\ v.max_hits = 0
         /\ v.verification_entries = Cardinality(verification_cache)

\* get_stats has just reported one live and one expired row, both hit, the
\* expired one the more often, and a verification older than seven days
C14_Witness ==
    /\ ret.op = "get_stats"
    /\ ret.value.enabled
    /\ ret.value.total_entries = 2
    /\ ret.value.active_entries = 1
    /\ ret.value.total_hits = 3
    /\ ret.value.max_hits = 2
    /\ \E r \in school_cache : r.expires_at <= now /\ r.hit_count = 2
    /\ ret.value.verification_entries = 1
    /\ \E r \in verification_cache : r.verified_at < now - WeekHours

\* C15: when a query inside get_stats fails on an enabled cache, get_stats
\* does not raise; it returns a dictionary with enabled = TRUE and an error
\* field, and the rows of both tables are as they were.
C15_StatsFailureIsReported ==
    [][(ret'.op = "get_stats" /\ enabled /\ ret'.fault # "none") =>
         /\ ~ret'.raised
         /\ ret'.value.enabled
         /\ "error" \in DOMAIN ret'.value
         /\ "total_entries" \notin DOMAIN ret'.value
         /\ school_cache' = school_cache
         /\ verification_cache' = verification_cache]_vars

\* get_stats has just failed at its last query, on a store that holds rows
\* in both tables
C15_Witness ==
    /\ ret.op = "get_stats"
    /\ ret.fault = "pragma"
    /\ "error" \in DOMAIN ret.value
    /\ school_cache # {}
    /\ verification_cache # {}

\* C16: clear_expired is idempotent: a second call that follows a first
\* with nothing in between, the clock reading for both what it was when the
\* first began, leaves both tables as the first call left them.
C16_SweepIsIdempotent ==
    [][(/\ ret.op = "clear_expired" /\ ret.fault = "none" /\ ret.at = now
        /\ ret'.op = "clear_expired" /\ ret'.fault = "none" /\ now' = now
        /\ enabled) =>
         /\ school_cache' = school_cache
         /\ verification_cache' = verification_cache]_vars

\* a sweep that removed rows of both tables has just been repeated at the
\* same time; rows that the sweep spares stand in both tables
C16_Witness ==
    /\ ret.op = "clear_expired"
    /\ ret.again
    /\ ret.deleted = 0
    /\ school_cache # {}
    /\ verification_cache # {}
    /\ Cardinality(school_cache) + Cardinality(verification_cache) < 4

\* C17: a read that is not a general-cache hit changes no row of either
\* table: a get that answers absent, whether no row exists or the row has
\* expired, leaves the expired row in place with its hit_count, and
\* get_verification, hit or miss, and get_stats change nothing.
C17_MissesChangeNothing ==
    [][(\/ ret'.op = "get" /\ ret'.value = Absent
        \/ ret'.op \in {"get_verification", "get_stats"}) =>
         /\ school_cache' = school_cache
         /\ verification_cache' = verification_cache]_vars

\* a get has just answered absent on an expired row that had been hit, and
\* the row is still there; a verification row stands as well
C17_Witness ==
    /\ ret.op = "get"
    /\ ret.fault = "none"
    /\ ret.value = Absent
    /\ enabled
    /\ \E r \in school_cache :
         /\ r.cache_key = GenerateKey(ret.school_name, ret.data_type)
         /\ r.expires_at <= now
         /\ r.hit_count > 0
    /\ verification_cache # {}

\* C18: a set whose payload json.dumps cannot encode raises nothing and
\* writes nothing: the entry stored under the key keeps its payload, source
\* URLs, expiry and hit_count, and get is answered as it was before, with
\* the previous payload while that entry is unexpired.
C18_UnserialisableSetWritesNothing ==
    [][(ret'.op = "set" /\ enabled /\ ~Serialisable(ret'.data)) =>
         /\ ~ret'.raised
         /\ school_cache' = school_cache
         /\ verification_cache' = verification_cache
         /\ GetResult(school_cache', ret'.school_name, ret'.data_type, now')
              = GetResult(school_cache, ret'.school_name, ret'.data_type, now)]_vars

\* a set with a payload that cannot be encoded has just returned, and the
\* live entry of its key, which has been hit, still answers get
C18_Witness ==
    /\ ret.op = "set"
    /\ ret.fault = "none"
    /\ ~Serialisable(ret.data)
    /\ enabled
    /\ GetResult(school_cache, ret.school_name, ret.data_type, now).cached
    /\ \E r \in school_cache :
         /\ r.cache_key = GenerateKey(ret.school_name, ret.data_type)
         /\ r.hit_count > 0
         /\ r.source_urls # SqlNull

\* C19: constructing the cache with ENABLE_CACHE on, on a store that cannot
\* be opened or whose tables cannot be created, raises nothing to the
\* caller and produces the cache object.
C19_ConstructNeverRaises ==
    (ret.op = "init" /\ ENABLE_CACHE) =>
      /\ ~ret.raised
      /\ obj = "built"

\* C20: no call other than clear_expired removes an entry: across every
\* step of get, set, get_verification, set_verification and get_stats,
\* each general-cache entry, by key, and each verification entry, by the
\* pair of identifier and type, that exists before the step exists after.
C20_OnlySweepRemoves ==
    [][ret'.op # "clear_expired" =>
         /\ \A r \in school_cache :
              \E n \in school_cache' : n.cache_key = r.cache_key
         /\ \A r \in verification_cache :
              \E n \in verification_cache' :
                /\ n.identifier = r.identifier
                /\ n.identifier_type = r.identifier_type]_vars

\* C21: a get that hits changes only the hit_count of the row it matched:
\* the payload, source URLs, created_at and expires_at of that row, and
\* every field of every other row of both tables, are after the get what
\* they were before it.
C21_HitChangesOnlyHitCount ==
    [][(ret'.op = "get" /\ ret'.value.cached) =>
         LET k == GenerateKey(ret'.school_name, ret'.data_type)
         IN /\ {r \in school_cache' : r.cache_key # k}
                 = {r \in school_cache : r.cache_key # k}
            /\ \A o \in school_cache :
                 o.cache_key = k =>
                   \E n \in school_cache' : n = [o EXCEPT !.hit_count = n.hit_count]
            /\ Cardinality(school_cache') = Cardinality(school_cache)
            /\ verification_cache' = verification_cache]_vars

\* a get has just hit a row that carries source URLs, beside a row of
\* another key that has been hit and a verification row
C21_Witness ==
    /\ ret.op = "get"
    /\ ret.value.cached
    /\ ret.value.source_urls # <<>>
    /\ \E r \in school_cache :
         /\ r.cache_key # GenerateKey(ret.school_name, ret.data_type)
         /\ r.hit_count > 0
    /\ verification_cache # {}

\* the key has a row
HasRow(k) == \E r \in school_cache : r.cache_key = k

\* C22 as stated: the hit_count of a key never decreases over get, set and
\* clear_expired: a row has at least the hit_count its key had in the state
\* before, and a row written by the set that follows a clear_expired has at
\* least the hit_count of the row of its key that the sweep removed.
C22_HitCountNeverDecreases ==
    [][/\ \A o \in school_cache, n \in school_cache' :
            n.cache_key = o.cache_key => n.hit_count >= o.hit_count
       /\ (ret.op = "clear_expired" /\ ret'.op = "set") =>
            \A o \in ret.removed, n \in school_cache' :
              n.cache_key = o.cache_key => n.hit_count >= o.hit_count]_vars

\* C22, amended: the hit_count of a row never decreases while the row
\* exists, across get, set and a clear_expired that spares it; a row
\* written for a key that has no row, one swept before included, starts at
\* hit_count 0.
C22_HitCountOfRowNeverDecreases ==
    [][/\ \A o \in school_cache, n \in school_cache' :
            n.cache_key = o.cache_key => n.hit_count >= o.hit_count
       /\ \A n \in school_cache' :
            ~HasRow(n.cache_key) => n.hit_count = 0]_vars

\* after a sweep, a set has just written a row for a key that had none,
\* and the row starts at 0
C22_Witness ==
    /\ swept
    /\ ret.op = "set"
    /\ ret.prior = "none"
    /\ \E r \in school_cache :
         /\ r.cache_key = GenerateKey(ret.school_name, ret.data_type)
         /\ r.hit_count = 0
         /\ r.created_at >= MaxTime

\* C23: every row written by set has expires_at = created_at + ttl
\* exactly, ttl being the ttl_hours passed (0 included) or CACHE_TTL_HOURS
\* when it is omitted: both timestamps come from one reading of the clock.
C23_ExpiryIsCreationPlusTtl ==
    (ret.op = "set" /\ enabled) =>
      \A r \in school_cache :
        r.cache_key = GenerateKey(ret.school_name, ret.data_type) =>
          r.expires_at = r.created_at + ret.ttl

\* the larger of two integers
Max(a, b) == IF a >= b THEN a ELSE b

\* C24: in every state, an empty store and a store without hits included,
\* get_stats computes hit_rate as total_hits / (total_entries +
\* max(total_hits, 1)), rounded to thousandths: the denominator is at least
\* 1, hit_rate is 0 when total_hits is 0, and the quotient is below 1.
C24_HitRateIsSmoothed ==
    (ret.op = "get_stats" /\ enabled) =>
      LET v == ret.value
          hits == HitsOfKeys(school_cache, Keys)
          den == Cardinality(school_cache) + Max(hits, 1)
      IN /\ den >= 1
         /\ v.hit_rate = RoundHalfEven(1000 * hits, den)
         /\ hits = 0 => v.hit_rate = 0
         /\ hits < den
         /\ v.hit_rate <= 1000

\* get_stats has just reported one hit over two rows, a rate that rounding
\* changes
C24_Witness ==
    /\ ret.op = "get_stats"
    /\ ret.value.enabled
    /\ ret.value.total_entries = 2
    /\ ret.value.total_hits = 1
    /\ ret.value.hit_rate = 333

\* C25: lookups that differ in the lower-cased name or in the kind are
\* isolated, the name "a:b" with kind "c" and the name "a" with kind "b:c"
\* included: a set on one pair does not change what get returns for the
\* other.
C25_LookupsAreIsolated ==
    [][(ret'.op = "set" /\ enabled) =>
         \A l \in KeyLookups :
           (Lower(l[1]) # Lower(ret'.school_name) \/ l[2] # ret'.data_type) =>
             GetResult(school_cache', l[1], l[2], now')
               = GetResult(school_cache, l[1], l[2], now')]_vars

\* C26: the lookup and the hit-count increment of get are one atomic step:
\* under any interleaving with a concurrent clear_expired or set on the
\* key, a get that returns a hit has increased the hit_count of exactly
\* one stored row by 1, and the payload it returns is the payload of that
\* row.  (A get that returns absent executes no UPDATE.)
C26_GetIsAtomic ==
    [][\A c \in BagToSet(calls) :
         (c.pc = "get_commit" /\ calls' = calls (-) SetToBag({c})) =>
           LET increased == {n \in school_cache' :
                               \E o \in school_cache :
                                 /\ o.cache_key = n.cache_key
                                 /\ n.hit_count = o.hit_count + 1}
           IN /\ Cardinality(increased) = 1
              /\ \A n \in increased :
                   json_loads(n.data.v) = GetHit(c.row).data]_vars

\* C27: get_stats reports a consistent snapshot while other callers write:
\* in every result active_entries <= total_entries, expired_entries >= 0
\* and total_hits >= max_hits, also when a set, get or clear_expired of
\* another caller commits between the queries of get_stats.
C27_StatsAreASnapshot ==
    (ret.op = "get_stats" /\ enabled) =>
      /\ ret.value.active_entries <= ret.value.total_entries
      /\ ret.value.expired_entries >= 0
      /\ ret.value.total_hits >= ret.value.max_hits

\* C28: the read path and the sweep agree on what is expired: when a
\* clear_expired at time t has completed, no row is left at t that get
\* refuses because of its expiry, so get_stats at t reports
\* expired_entries = 0, and no verification row is left that
\* get_verification refuses at t.
C28_SweepLeavesNothingRefused ==
    ( /\ ret.op = "clear_expired"
      /\ ret.fault = "none"
      /\ ~ret.raised
      /\ ret.at = now
      /\ enabled ) =>
      /\ \A r \in school_cache :
           SelectLive(school_cache, r.cache_key, now) # {}
      /\ Stats(school_cache, verification_cache, now).expired_entries = 0
      /\ \A v \in verification_cache :
           SelectVerification(verification_cache, v.identifier,
                              v.identifier_type, now - WeekHours) # {}

\* C29: a set with ttl_hours 0 or negative is accepted without error and
\* the given value is used, not the default: its row expires at the time of
\* the set plus ttl_hours and carries the new payload in place of whatever
\* the key held, and from that set until a later set of the key every get
\* on the key returns absent, at the same or any later time.
C29_NonPositiveTtlHidesTheKey ==
    enabled =>
      LET k == GenerateKey(OakLower[1], OakLower[2])
          g == lastSet[k]
      IN (g.known /\ g.ttl_hours # PyNone /\ g.ttl_hours.v <= 0) =>
           /\ \E r \in school_cache :
                /\ r.cache_key = k
                /\ r.data = SqlText(json_dumps(g.data))
                /\ r.expires_at = r.created_at + g.ttl_hours.v
           /\ \A t \in Hours :
                t >= now => GetResult(school_cache, OakLower[1], OakLower[2], t) = Absent
           /\ ret.op = "set" => ~ret.raised
           /\ ret.op = "get" => ret.value = Absent

\* a set with ttl_hours = -1 has just replaced an entry that was still live
C29_Witness ==
    /\ ret.op = "set"
    /\ ~ret.raised
    /\ ret.ttl_hours = PyInt(-1)
    /\ ret.prior = "live"
    /\ \E r \in school_cache : r.hit_count > 0 /\ r.expires_at < now

\* C30: in a sequence of get_recruitment_intelligence calls on one engine,
\* the estimates of a trust lookup are computed only from the schools count
\* that lookup found: with a count they are the trust total and the
\* per-school averages over that count, without one they are the
\* school-level low / high / midpoint, never averages over the count of an
\* earlier lookup.
C30_EstimatesUseThisLookupsCount ==
    ( /\ intelligence # PyNone
      /\ "error" \notin DOMAIN intelligence
      /\ intelligence.entity_found.is_trust
      /\ intelligence.financial.estimates # PyNone ) =>
      intelligence.financial.estimates =
        RecruitmentEstimates(intelligence.financial.figures, TRUE,
            SchoolsCount_ThisLookup(intelligence.entity_found.schools_in_trust))

====
